---- MODULE Spec2Model ----
(***************************************************************************)
(* A model of the agent training loop (anvil/agents/base_agent.py:         *)
(* BaseAgent.__init__, load, step_env, fit, _write_log) and of the critic  *)
(* updaters (anvilrl/updaters/critics.py: BaseCriticUpdater and its three  *)
(* regressions).                                                           *)
(*                                                                         *)
(* SpecAgent runs one agent: construction, direct load calls and one fit   *)
(* call, stepped at the granularity of the loops of fit and step_env.      *)
(* SpecUpdater runs one critic updater: construction and a bounded number  *)
(* of update calls, stepped through the statements of run_optimizer.       *)
(***************************************************************************)
EXTENDS Integers, Sequences, FiniteSets

\* ------------------------------------------------------------------ bounds
MaxSteps == 4
MaxBatch == 2
MaxCapacity == 2

MaxCritics == 2
MaxGradVal == 2
MaxClip == 2
MaxCalls == 2

\* ------------------------------------------------------------ agent state
VARIABLES
    pc,              \* position of the agent's caller / of fit
    weights,         \* the model's state dict: "init" or "checkpoint"
    raised,          \* exception that left the last top-level call, or "none"
    isRollout,       \* isinstance(self.buffer, RolloutBuffer)
    buffer_size,     \* self.buffer_size
    action_explorer, \* TRUE iff self.action_explorer is not None
    buffer,          \* self.buffer: the stored transitions, oldest first
    N,               \* the num_steps argument of fit
    num_steps,       \* fit's local num_steps after the on-policy translation
    batch_size,      \* the batch_size argument of fit
    step,            \* fit's loop variable
    remaining,       \* iterations step_env's loop still has to run
    observation,     \* the local `observation` of fit / step_env
    log,             \* the Log returned by _fit in this iteration
    written,         \* what the metrics writer received, in order
    envResets,       \* the environment's record: observations returned by reset()
    envSteps,        \* the environment's record: argument and result of each step()
    hist,            \* every transition handed to buffer.add_trajectory, in order
    fitAt,           \* Len(hist) at each _fit invocation, in order
    lastLoad         \* the load the last top-level call ran: the file it found and
                     \* the weights before it

agentVars == <<pc, weights, raised, isRollout, buffer_size, action_explorer, buffer,
               N, num_steps, batch_size, step, remaining, observation, log, written,
               envResets, envSteps, hist, fitAt, lastLoad>>

\* ---------------------------------------------------------- updater state
VARIABLES
    upc,             \* position of the updater's caller / of run_optimizer
    max_grad,        \* self.max_grad
    modelKind,       \* "Critic" or "ActorCritic": the model handed to every call
    nCritics,        \* len(model.critics) (1 for a Critic)
    variant,         \* which regression's __call__ is running
    cpIsGenerator,   \* critic_parameters is a one-shot generator, not a list
    cpItems,         \* the parameters critic_parameters still yields when iterated
    optParams,       \* the parameters the optimizer of this call was built over
    lossGrad,        \* d loss / d p of this call's loss
    grad,            \* p.grad, unscaled
    scaled,          \* p.grad was multiplied by this call's clip coefficient
    clipNum,         \* the square of the clip coefficient, as clipNum / clipDen
    clipDen,
    ops,             \* the statements this call has executed, in order
    stepsApplied,    \* how many optimizer steps have changed each parameter
    calls            \* update calls started so far

updVars == <<upc, max_grad, modelKind, nCritics, variant, cpIsGenerator, cpItems,
             optParams, lossGrad, grad, scaled, clipNum, clipDen, ops, stepsApplied,
             calls>>

vars == <<agentVars, updVars>>

NoObs == -1
NoAction == <<"none", NoObs>>
NoLog == [reward |-> <<0, 0>>]

\* What reset() may return and what step() may return: the environment is an
\* external collaborator, so every combination below is a possible answer.
ResetObs == {0, 1}
StepResults ==
    { [reward |-> 1, next_observation |-> 2, done |-> FALSE],
      [reward |-> 3, next_observation |-> 3, done |-> TRUE] }
\* What a concrete agent's _fit may leave in Log.reward.
FitRewards == {<<0, 1>>, <<9, 1>>}
FileStates == {"missing", "present", "corrupt"}

RECURSIVE SumSeq(_)
SumSeq(s) == IF s = <<>> THEN 0 ELSE Head(s) + SumSeq(Tail(s))

\* np.mean: the arithmetic mean as the fraction <<sum, count>>
Mean(s) == <<SumSeq(s), Len(s)>>

LoadOutcome_NoCatch(file, w) ==
    CASE file = "present" -> [weights |-> "checkpoint", raised |-> "none"]
      [] file = "missing" -> [weights |-> w, raised |-> "FileNotFoundError"]
      [] OTHER            -> [weights |-> w, raised |-> "UnpicklingError"]

\* load: the state dict and the exception after T.load(path + ".pt")
LoadOutcome(file, w) ==
    CASE file = "present" -> [weights |-> "checkpoint", raised |-> "none"]
      [] file = "missing" -> [weights |-> w, raised |-> "none"]
      [] OTHER            -> [weights |-> w, raised |-> "UnpicklingError"]

NumIterations_NoTranslation(n, rollout, cap) == n

\* fit, lines 145-146: the number of loop iterations
NumIterations(n, rollout, cap) == IF rollout THEN n \div cap ELSE n

CollectCount_AlwaysBatch(s, rollout, b, cap) ==
    IF s # 0 /\ rollout THEN cap ELSE b

\* fit, lines 151-162: the num_steps handed to step_env in iteration s
CollectCount(s, rollout, b, cap) ==
    IF s = 0 THEN b ELSE IF rollout THEN cap ELSE 1

\* step_env, lines 108-111: the action for an observation
ChooseAction(explorer, obs) ==
    IF explorer THEN <<"explorer", obs>> ELSE <<"model", obs>>

\* step_env, lines 116-119: whether the environment is reset after a step
NeedsReset_Never(done) == FALSE
NeedsReset(done) == done

\* buffer.add_trajectory: a store of fixed capacity that overwrites its oldest entry
BufferAdd(buf, tr, cap) ==
    IF Len(buf) < cap THEN Append(buf, tr) ELSE Append(Tail(buf), tr)

\* buffer.last(batch_size): the most recent entries, oldest first
BufferLast(buf, n) ==
    IF Len(buf) <= n THEN buf ELSE SubSeq(buf, Len(buf) - n + 1, Len(buf))

Rewards(trs) == [i \in 1..Len(trs) |-> trs[i].reward]

NoLoad == [file |-> "none", before |-> "none"]

\* BaseAgent.__init__ (as run by a concrete agent, which also sets action_explorer)
Construct ==
    /\ pc = "new"
    /\ \E rollout \in BOOLEAN, cap \in 1..MaxCapacity, explorer \in BOOLEAN,
          path \in {"none"} \cup FileStates :
          \* path = "none": model_path is None; else what is at model_path + ".pt"
          LET out == IF path # "none" THEN LoadOutcome(path, weights)
                     ELSE [weights |-> weights, raised |-> "none"]
          IN /\ isRollout' = rollout
             /\ buffer_size' = cap
             /\ action_explorer' = explorer
             /\ buffer' = <<>>
             /\ weights' = out.weights
             /\ raised' = out.raised
             /\ lastLoad' = IF path # "none" THEN [file |-> path, before |-> weights]
                            ELSE NoLoad
             /\ pc' = IF out.raised = "none" THEN "ready" ELSE "failed"
    /\ UNCHANGED <<N, num_steps, batch_size, step, remaining, observation, log, written,
                   envResets, envSteps, hist, fitAt>>
    /\ UNCHANGED updVars

\* BaseAgent.load, called directly
Load ==
    /\ pc = "ready"
    /\ \E file \in FileStates :
          LET out == LoadOutcome(file, weights)
          IN /\ weights' = out.weights
             /\ raised' = out.raised
             /\ lastLoad' = [file |-> file, before |-> weights]
    /\ UNCHANGED <<pc, isRollout, buffer_size, action_explorer, buffer, N, num_steps,
                   batch_size, step, remaining, observation, log, written,
                   envResets, envSteps, hist, fitAt>>
    /\ UNCHANGED updVars

\* fit, lines 144-148: translate num_steps, reset the environment
FitBegin ==
    /\ pc = "ready"
    /\ \E n \in 0..MaxSteps, b \in 1..MaxBatch, o \in ResetObs :
          /\ N' = n
          /\ batch_size' = b
          /\ num_steps' = NumIterations(n, isRollout, buffer_size)
          /\ observation' = o
          /\ envResets' = Append(envResets, o)
    /\ step' = 0
    /\ raised' = "none"
    /\ lastLoad' = NoLoad
    /\ pc' = "loop"
    /\ UNCHANGED <<weights, isRollout, buffer_size, action_explorer, buffer, remaining,
                   log, written, envSteps, hist, fitAt>>
    /\ UNCHANGED updVars

\* fit, lines 149-162: the loop test and the call of step_env
FitIterate ==
    /\ pc = "loop"
    /\ step < num_steps
    /\ remaining' = CollectCount(step, isRollout, batch_size, buffer_size)
    /\ pc' = "step_env"
    /\ UNCHANGED <<weights, raised, isRollout, buffer_size, action_explorer, buffer, N,
                   num_steps, batch_size, step, observation, log, written,
                   envResets, envSteps, hist, fitAt>>
    /\ UNCHANGED <<lastLoad, updVars>>

\* fit, line 149: the loop is exhausted
FitReturn ==
    /\ pc = "loop"
    /\ step >= num_steps
    /\ pc' = "done"
    /\ UNCHANGED <<weights, raised, isRollout, buffer_size, action_explorer, buffer, N,
                   num_steps, batch_size, step, remaining, observation, log, written,
                   envResets, envSteps, hist, fitAt>>
    /\ UNCHANGED <<lastLoad, updVars>>

\* step_env, lines 107-119: one iteration of its loop
StepEnv ==
    /\ pc = "step_env"
    /\ remaining > 0
    /\ \E res \in StepResults :
          LET action == ChooseAction(action_explorer, observation)
              tr == [observation |-> observation, action |-> action,
                     reward |-> res.reward,
                     next_observation |-> res.next_observation, done |-> res.done]
          IN /\ envSteps' = Append(envSteps, [arg |-> NoAction, reward |-> res.reward,
                                  next_observation |-> res.next_observation,
                                  done |-> res.done])
             /\ buffer' = BufferAdd(buffer, tr, buffer_size)
             /\ hist' = Append(hist, tr)
             /\ IF NeedsReset(res.done)
                THEN \E o \in ResetObs :
                        /\ observation' = o
                        /\ envResets' = Append(envResets, o)
                ELSE /\ observation' = res.next_observation
                     /\ UNCHANGED envResets
    /\ remaining' = remaining - 1
    /\ UNCHANGED <<pc, weights, raised, isRollout, buffer_size, action_explorer, N,
                   num_steps, batch_size, step, log, written, fitAt>>
    /\ UNCHANGED <<lastLoad, updVars>>

\* fit, lines 163-167: step_env has returned; the concrete agent's _fit runs
CallFit ==
    /\ pc = "step_env"
    /\ remaining = 0
    /\ \E r \in FitRewards : log' = [reward |-> r]
    /\ fitAt' = Append(fitAt, Len(hist))
    /\ pc' = "write_log"
    /\ UNCHANGED <<weights, raised, isRollout, buffer_size, action_explorer, buffer, N,
                   num_steps, batch_size, step, remaining, observation, written,
                   envResets, envSteps, hist>>
    /\ UNCHANGED <<lastLoad, updVars>>

WriteLog_KeepFitReward ==
    /\ pc = "write_log"
    /\ written' = Append(written, [step |-> step, reward |-> log.reward,
                                   appended |-> Len(hist)])
    /\ log' = NoLog
    /\ step' = step + 1
    /\ pc' = "loop"
    /\ UNCHANGED <<weights, raised, isRollout, buffer_size, action_explorer, buffer, N,
                   num_steps, batch_size, remaining, observation,
                   envResets, envSteps, hist, fitAt>>
    /\ UNCHANGED <<lastLoad, updVars>>

\* fit, lines 168-169, and _write_log
WriteLog ==
    /\ pc = "write_log"
    /\ LET final == [log EXCEPT !.reward = Mean(Rewards(BufferLast(buffer, batch_size)))]
       IN written' = Append(written, [step |-> step, reward |-> final.reward,
                                      appended |-> Len(hist)])
    /\ log' = NoLog
    /\ step' = step + 1
    /\ pc' = "loop"
    /\ UNCHANGED <<weights, raised, isRollout, buffer_size, action_explorer, buffer, N,
                   num_steps, batch_size, remaining, observation,
                   envResets, envSteps, hist, fitAt>>
    /\ UNCHANGED <<lastLoad, updVars>>

AgentNext ==
    \/ Construct
    \/ Load
    \/ FitBegin
    \/ FitIterate
    \/ FitReturn
    \/ StepEnv
    \/ CallFit
    \/ WriteLog

\* ---------------------------------------------------------------- updater
\* Parameter 0 stands for the actor's parameters of an ActorCritic, parameter
\* i >= 1 for the parameters of critic i.
AllParams == 0..MaxCritics
GradVals == 0..MaxGradVal
MaxGradVals == -1..MaxClip
Variants == {"ValueRegression", "ContinuousQRegression", "DiscreteQRegression"}

ModelParams(kind, k) == IF kind = "Critic" THEN {1} ELSE 0..k
CriticParams(kind, k) == IF kind = "Critic" THEN {1} ELSE 1..k

RECURSIVE SumOver(_, _)
SumOver(S, f) ==
    IF S = {} THEN 0
    ELSE LET p == CHOOSE q \in S : TRUE IN f[p] + SumOver(S \ {p}, f)

GetModelParameters_FirstCritic(kind, k) ==
    IF kind = "Critic"
    THEN [isGenerator |-> TRUE, items |-> {1}]
    ELSE [isGenerator |-> FALSE, items |-> {1}]

\* _get_model_parameters: model.parameters() is a generator, params is a list
GetModelParameters(kind, k) ==
    IF kind = "Critic"
    THEN [isGenerator |-> TRUE, items |-> {1}]
    ELSE [isGenerator |-> FALSE, items |-> 1..k]

\* Iterating critic_parameters: what it yields, and what it yields afterwards
Yielded(isGen, items) == items
AfterIteration(isGen, items) == IF isGen THEN {} ELSE items

\* BaseCriticUpdater.__init__: the max_grad the updater keeps
InitMaxGrad(mg) == [max_grad |-> mg, raised |-> "none"]

\* Neither the agent nor the updater has been constructed
Init ==
    /\ pc = "new"
    /\ weights = "init"
    /\ raised = "none"
    /\ isRollout = FALSE
    /\ buffer_size = 1
    /\ action_explorer = FALSE
    /\ buffer = <<>>
    /\ N = 0
    /\ num_steps = 0
    /\ batch_size = 1
    /\ step = 0
    /\ remaining = 0
    /\ observation = NoObs
    /\ log = NoLog
    /\ written = <<>>
    /\ envResets = <<>>
    /\ envSteps = <<>>
    /\ hist = <<>>
    /\ fitAt = <<>>
    /\ lastLoad = NoLoad
    /\ upc = "new"
    /\ max_grad = 0
    /\ modelKind = "Critic"
    /\ nCritics = 1
    /\ variant = "none"
    /\ cpIsGenerator = FALSE
    /\ cpItems = {}
    /\ optParams = {}
    /\ lossGrad = [p \in AllParams |-> 0]
    /\ grad = [p \in AllParams |-> 0]
    /\ scaled = [p \in AllParams |-> FALSE]
    /\ clipNum = 1
    /\ clipDen = 1
    /\ ops = <<>>
    /\ stepsApplied = [p \in AllParams |-> 0]
    /\ calls = 0

\* BaseCriticUpdater.__init__ through a subclass's __init__, and the model the
\* updater will be called with
UpdaterInit ==
    /\ upc = "new"
    /\ \E mg \in MaxGradVals, kind \in {"Critic", "ActorCritic"}, k \in 1..MaxCritics :
          LET out == InitMaxGrad(mg)
          IN /\ kind = "Critic" => k = 1
             /\ max_grad' = out.max_grad
             /\ upc' = IF out.raised = "none" THEN "idle" ELSE "failed"
             /\ modelKind' = kind
             /\ nCritics' = k
    /\ UNCHANGED <<variant, cpIsGenerator, cpItems, optParams, lossGrad, grad, scaled,
                   clipNum, clipDen, ops, stepsApplied, calls>>
    /\ UNCHANGED agentVars

\* __call__ of the three regressions up to the call of run_optimizer: select the
\* parameters, build the optimizer over them (which iterates them), compute the loss
UpdateCall ==
    /\ upc = "idle"
    /\ calls < MaxCalls
    /\ \E v \in Variants, lg \in [CriticParams(modelKind, nCritics) -> GradVals] :
          LET cp == GetModelParameters(modelKind, nCritics)
          IN /\ variant' = v
             /\ cpIsGenerator' = cp.isGenerator
             /\ optParams' = Yielded(cp.isGenerator, cp.items)
             /\ cpItems' = AfterIteration(cp.isGenerator, cp.items)
             /\ lossGrad' = [p \in AllParams |->
                               IF p \in CriticParams(modelKind, nCritics)
                               THEN lg[p] ELSE 0]
    /\ ops' = <<"get_model_parameters", "optimizer", "loss">>
    /\ clipNum' = 1
    /\ clipDen' = 1
    /\ calls' = calls + 1
    /\ upc' = "zero_grad"
    /\ UNCHANGED <<max_grad, modelKind, nCritics, grad, scaled, stepsApplied>>
    /\ UNCHANGED agentVars

ZeroGrad_Skipped ==
    /\ upc = "zero_grad"
    /\ ops' = Append(ops, "zero_grad")
    /\ upc' = "backward"
    /\ UNCHANGED <<max_grad, modelKind, nCritics, variant, cpIsGenerator, cpItems,
                   optParams, lossGrad, grad, scaled, clipNum, clipDen, stepsApplied,
                   calls>>
    /\ UNCHANGED agentVars

\* run_optimizer, line 50: optimizer.zero_grad()
ZeroGrad ==
    /\ upc = "zero_grad"
    /\ grad' = [p \in AllParams |-> IF p \in optParams THEN 0 ELSE grad[p]]
    /\ scaled' = [p \in AllParams |-> IF p \in optParams THEN FALSE ELSE scaled[p]]
    /\ ops' = Append(ops, "zero_grad")
    /\ upc' = "backward"
    /\ UNCHANGED <<max_grad, modelKind, nCritics, variant, cpIsGenerator, cpItems,
                   optParams, lossGrad, clipNum, clipDen, stepsApplied, calls>>
    /\ UNCHANGED agentVars

\* run_optimizer, line 51: loss.backward() adds the loss's gradient to p.grad
Backward ==
    /\ upc = "backward"
    /\ grad' = [p \in AllParams |-> grad[p] + lossGrad[p]]
    /\ ops' = Append(ops, "backward")
    /\ upc' = "clip"
    /\ UNCHANGED <<max_grad, modelKind, nCritics, variant, cpIsGenerator, cpItems,
                   optParams, lossGrad, scaled, clipNum, clipDen, stepsApplied, calls>>
    /\ UNCHANGED agentVars

\* run_optimizer, lines 52-53: clip_grad_norm_(critic_parameters, self.max_grad)
\* scales the gradients of the parameters critic_parameters yields by
\* max_grad / total_norm when their total norm exceeds max_grad
ClipGradients ==
    /\ upc = "clip"
    /\ IF max_grad > 0
       THEN LET S == Yielded(cpIsGenerator, cpItems)
                normSq == SumOver(S, [p \in AllParams |-> grad[p] * grad[p]])
                clips == normSq > max_grad * max_grad
            IN /\ cpItems' = AfterIteration(cpIsGenerator, cpItems)
               /\ scaled' = [p \in AllParams |-> IF clips /\ p \in S THEN TRUE
                                                 ELSE scaled[p]]
               /\ clipNum' = IF clips THEN max_grad * max_grad ELSE clipNum
               /\ clipDen' = IF clips THEN normSq ELSE clipDen
               /\ ops' = Append(ops, "clip_grad_norm_")
       ELSE UNCHANGED <<cpItems, scaled, clipNum, clipDen, ops>>
    /\ upc' = "step"
    /\ UNCHANGED <<max_grad, modelKind, nCritics, variant, cpIsGenerator, optParams,
                   lossGrad, grad, stepsApplied, calls>>
    /\ UNCHANGED agentVars

\* run_optimizer, line 54: optimizer.step(), then __call__ returns its UpdaterLog
OptimizerStep ==
    /\ upc = "step"
    /\ stepsApplied' = [p \in AllParams |->
                          IF p \in optParams THEN stepsApplied[p] + 1
                          ELSE stepsApplied[p]]
    /\ ops' = Append(ops, "step")
    /\ variant' = "none"
    /\ lossGrad' = [p \in AllParams |-> 0]
    /\ upc' = "idle"
    /\ UNCHANGED <<max_grad, modelKind, nCritics, cpIsGenerator, cpItems, optParams,
                   grad, scaled, clipNum, clipDen, calls>>
    /\ UNCHANGED agentVars

UpdaterNext ==
    \/ UpdaterInit
    \/ UpdateCall
    \/ ZeroGrad
    \/ Backward
    \/ ClipGradients
    \/ OptimizerStep

SpecAgent == Init /\ [][AgentNext]_vars

SpecUpdater == Init /\ [][UpdaterNext]_vars
\* ----------------------------------------------------------------- claims
FitStates == {"loop", "step_env", "write_log", "done"}
Min(a, b) == IF a < b THEN a ELSE b
Count(s, x) == Cardinality({i \in 1..Len(s) : s[i] = x})

\* C1: with a RolloutBuffer of capacity C, fit(N, B) invokes _fit exactly
\* floor(N / C) times, every iteration but the first appends exactly C
\* transitions before its _fit call, and none between _fit and the log write.
OnPolicySchedule ==
    (isRollout /\ pc \in FitStates) =>
        /\ Len(fitAt) <= N \div buffer_size
        /\ pc = "done" => Len(fitAt) = N \div buffer_size
        /\ \A k \in 2..Len(fitAt) : fitAt[k] - fitAt[k - 1] = buffer_size
        /\ \A k \in 1..Len(written) : written[k].appended = fitAt[k]

OnPolicyWitness ==
    /\ pc = "done"
    /\ isRollout
    /\ buffer_size = 2
    /\ N = 4
    /\ Len(fitAt) = 2

\* C2: with a buffer that is not a RolloutBuffer, fit(N, B) with N >= 1 runs N
\* iterations; iteration 0 appends B transitions and each later one appends 1
\* before its _fit call: B + (N - 1) transitions in all.
OffPolicySchedule ==
    (~isRollout /\ pc \in FitStates) =>
        /\ fitAt # <<>> => fitAt[1] = batch_size
        /\ \A k \in 2..Len(fitAt) : fitAt[k] - fitAt[k - 1] = 1
        /\ pc = "done" => Len(fitAt) = N
        /\ (pc = "done" /\ N >= 1) => Len(hist) = batch_size + (N - 1)

OffPolicyWitness ==
    /\ pc = "done"
    /\ ~isRollout
    /\ N = 4
    /\ batch_size = 2
    /\ Len(hist) = 5

\* C3: the k-th Log handed to the writer is keyed by step k - 1 and its reward is
\* the mean of the rewards of the most recent batch_size entries the buffer held
\* when _fit returned, whatever _fit left in log.reward.
RewardLogOverwrite ==
    \A k \in 1..Len(written) :
        LET n == fitAt[k]
            m == Min(batch_size, Min(buffer_size, n))
            recent == SubSeq(hist, n - m + 1, n)
        IN /\ written[k].step = k - 1
           /\ written[k].reward[2] > 0
           /\ written[k].reward[1] * m = SumSeq(Rewards(recent)) * written[k].reward[2]

RewardLogWitness ==
    /\ Len(written) >= 2
    /\ written[2].reward = <<4, 2>>
    /\ buffer_size = 2

\* C8: a load that finds no file at path + ".pt" raises nothing and leaves the
\* weights as they were, from the constructor as well as called directly; any
\* other error of the load leaves the call.
MissingCheckpoint ==
    (pc \in {"ready", "failed"} /\ lastLoad # NoLoad) =>
        /\ lastLoad.file = "missing" =>
              /\ raised = "none"
              /\ weights = lastLoad.before
              /\ pc = "ready"
        /\ lastLoad.file = "corrupt" =>
              /\ raised = "UnpicklingError"
              /\ weights = lastLoad.before

MissingCheckpointWitness ==
    /\ pc = "ready"
    /\ lastLoad = [file |-> "missing", before |-> "init"]
    /\ weights = "init"

\* C9: the action of every environment step is the explorer's if there is one and
\* the model's otherwise, it is the action the environment executed, and it is
\* stored with the reward, next observation and done flag of that execution.
ActionExecutedAndStored ==
    \A i \in 1..Len(hist) :
        /\ hist[i].action = ChooseAction(action_explorer, hist[i].observation)
        /\ envSteps[i].arg = hist[i].action
        /\ hist[i].reward = envSteps[i].reward
        /\ hist[i].next_observation = envSteps[i].next_observation
        /\ hist[i].done = envSteps[i].done

\* C10: the environment is reset once before the first step and then exactly
\* after each done step; each transition's observation is the first reset's
\* (first transition), the previous transition's next_observation (not done), or
\* the observation of the reset that followed the previous transition (done).
DonesUpTo(i) == Cardinality({j \in 1..i : hist[j].done})
ThreadedObservation(i) ==
    IF i = 1 THEN envResets[1]
    ELSE IF hist[i - 1].done THEN envResets[1 + DonesUpTo(i - 1)]
    ELSE hist[i - 1].next_observation

ObservationThreading ==
    pc \in FitStates =>
        /\ Len(envResets) = 1 + DonesUpTo(Len(hist))
        /\ \A i \in 1..Len(hist) : hist[i].observation = ThreadedObservation(i)
        /\ observation = ThreadedObservation(Len(hist) + 1)

ObservationThreadingWitness ==
    /\ Len(fitAt) >= 2
    /\ Len(hist) > fitAt[1]
    /\ hist[fitAt[1]].done
    /\ envResets[1] = 0
    /\ hist[fitAt[1] + 1].observation = 1

\* C4: run_optimizer executes zero_grad, backward, the clip iff max_grad > 0, and
\* step, once each and in this order; the gradient the step uses is the gradient
\* of this call's loss alone.
RunOptimizerOrder ==
    LET done == SubSeq(ops, 4, Len(ops))
        full == IF max_grad > 0
                THEN <<"zero_grad", "backward", "clip_grad_norm_", "step">>
                ELSE <<"zero_grad", "backward", "step">>
    IN /\ (upc = "idle" /\ calls > 0) => done = full
       /\ upc = "zero_grad" => done = <<>>
       /\ upc = "backward" => done = SubSeq(full, 1, 1)
       /\ upc = "clip" => done = SubSeq(full, 1, 2)
       /\ upc = "step" => done = SubSeq(full, 1, Len(full) - 1)
       /\ upc \in {"clip", "step"} => \A p \in optParams : grad[p] = lossGrad[p]

RunOptimizerWitness ==
    /\ upc = "step"
    /\ calls = 2
    /\ max_grad > 0
    /\ modelKind = "ActorCritic"
    /\ grad[1] = MaxGradVal

\* C5: with max_grad = g > 0, when the optimizer steps the global norm of the
\* gradients of the parameters it was built over is at most g.
ClippedNormBound ==
    (upc = "step" /\ max_grad > 0) =>
        SumOver(optParams, [p \in AllParams |->
                    grad[p] * grad[p] * (IF scaled[p] THEN clipNum ELSE clipDen)])
            <= max_grad * max_grad * clipDen

\* C6: the parameters selected are exactly those of the model's critics; they are
\* selected once per call and handed whole to one optimizer, whose step changes
\* every critic.
ParameterSelection ==
    (upc \in {"zero_grad", "backward", "clip", "step", "idle"} /\ calls > 0) =>
        /\ \A p \in AllParams : p \in optParams <=> (1 <= p /\ p <= nCritics)
        /\ Count(ops, "get_model_parameters") = 1
        /\ Count(ops, "optimizer") = 1
        /\ upc = "idle" =>
              /\ \A c \in 1..nCritics : stepsApplied[c] = calls
              /\ stepsApplied[0] = 0

ParameterSelectionWitness ==
    /\ upc = "idle"
    /\ calls = 1
    /\ modelKind = "ActorCritic"
    /\ nCritics = MaxCritics
    /\ stepsApplied[MaxCritics] = 1

\* C7: an updater with a negative max_grad is never constructed, so none reaches
\* run_optimizer.
NegativeMaxGradRejected ==
    upc \notin {"new", "failed"} => max_grad >= 0
====
